---------------------------- MODULE Spec2Model ----------------------------
(***************************************************************************)
(* A model of the folder2LLM conversion scripts (files_2_zip.py,           *)
(* raw_text_2_utf8.py, files_2_text.py): the sanitizer, the extension      *)
(* dispatch of extract_text_from_file with its optional parsing libraries, *)
(* and the per-file loop of convert_files_to_txt over an output tree.      *)
(*                                                                         *)
(* Text is a sequence of characters; a character is a one-element name     *)
(* ("a", " ", "NL", "NUL", ...).  A file name is a sequence of one-letter   *)
(* strings, a path a sequence of such names.                               *)
(***************************************************************************)
EXTENDS Integers, Sequences, FiniteSets, TLC

VARIABLES
    variant,      \* which script runs: "files_2_zip", "raw_text_2_utf8", "files_2_text"
    caps,         \* the optional libraries bound at import time (None = FALSE)
    skip_hidden,  \* parameter skip_hidden of convert_files_to_txt
    outDirs,      \* directories that exist under output_dir (paths relative to it)
    outFiles,     \* files that exist under output_dir: path -> content
    walked,       \* input files os.walk has handed to the loop so far
    cur,          \* what the last loop iteration computed for its file
    emitted,      \* log records emitted by the last operation
    status,       \* position of the running function
    wrote,        \* output paths written by this run
    converted,    \* input files whose text this run wrote
    arg,          \* argument of the function under study
    res           \* its result

vars == << variant, caps, skip_hidden, outDirs, outFiles, walked, cur, emitted,
           status, wrote, converted, arg, res >>

-----------------------------------------------------------------------------
(* Bounds of the model *)

\* longest text handed to sanitize_text
MaxLen == 3

\* most files one run of convert_files_to_txt walks
MaxFiles == 2

-----------------------------------------------------------------------------
(* Characters and text *)

\* printable characters: a letter, the ASCII space, a base letter, the
\* combining acute accent U+0301 and the precomposed letter U+00E9
PrintableChars == {"a", " ", "e", "acute", "eacute"}

\* characters str.isprintable() rejects: newline, carriage return, tab,
\* NUL (a control character that is no whitespace) and VT (\x0b, a control
\* character that str.strip() treats as whitespace)
NonPrintableChars == {"NL", "CR", "TAB", "NUL", "VT"}

Chars == PrintableChars \cup NonPrintableChars

\* what str.strip() removes at both ends
WhitespaceChars == {" ", "NL", "CR", "TAB", "VT"}

isprintable(ch) == ch \in PrintableChars

TextsUpTo(n) == UNION { [1..k -> Chars] : k \in 0..n }

RECURSIVE Concat(_)
Concat(seqs) ==
    IF seqs = << >> THEN << >> ELSE Head(seqs) \o Concat(Tail(seqs))

\* sep.join(items)
RECURSIVE Join(_, _)
Join(sep, items) ==
    IF items = << >> THEN << >>
    ELSE IF Len(items) = 1 THEN items[1]
    ELSE items[1] \o sep \o Join(sep, Tail(items))

\* unicodedata.normalize("NFC", text): canonical composition; in this
\* alphabet the one composing pair is e + U+0301 -> U+00E9
RECURSIVE NFC(_)
NFC(text) ==
    IF text = << >> THEN << >>
    ELSE IF Len(text) >= 2 /\ text[1] = "e" /\ text[2] = "acute"
         THEN <<"eacute">> \o NFC(SubSeq(text, 3, Len(text)))
         ELSE <<text[1]>> \o NFC(Tail(text))

RECURSIVE LStrip(_)
LStrip(text) ==
    IF text # << >> /\ text[1] \in WhitespaceChars THEN LStrip(Tail(text))
    ELSE text

RECURSIVE RStrip(_)
RStrip(text) ==
    IF text # << >> /\ text[Len(text)] \in WhitespaceChars
    THEN RStrip(SubSeq(text, 1, Len(text) - 1))
    ELSE text

\* str.strip()
Strip(text) == RStrip(LStrip(text))

\* the loop of sanitize_text: one output character per input character
CleanChar(ch) ==
    IF isprintable(ch) \/ ch \in {"NL", "CR", "TAB"} THEN ch ELSE " "

cleaned_chars(text) == [i \in 1..Len(text) |-> CleanChar(text[i])]

\* a sanitizer that keeps every whitespace character as well
sanitize_text_KeepSpace(text) ==
    LET n == NFC(text)
    IN  Strip([i \in 1..Len(n) |->
                 IF isprintable(n[i]) \/ n[i] \in WhitespaceChars THEN n[i] ELSE " "])

\* a sanitizer that strips before it replaces
sanitize_text_StripFirst(text) == cleaned_chars(Strip(NFC(text)))

sanitize_text(text) == Strip(cleaned_chars(NFC(text)))

-----------------------------------------------------------------------------
(* File names, extensions and paths *)

UpperLetters ==
    << "A","B","C","D","E","F","G","H","I","J","K","L","M",
       "N","O","P","Q","R","S","T","U","V","W","X","Y","Z" >>

LowerLetters ==
    << "a","b","c","d","e","f","g","h","i","j","k","l","m",
       "n","o","p","q","r","s","t","u","v","w","x","y","z" >>

LowerChar(c) ==
    IF \E i \in 1..26 : UpperLetters[i] = c
    THEN LowerLetters[CHOOSE i \in 1..26 : UpperLetters[i] = c]
    ELSE c

\* str.lower()
lower(s) == [i \in 1..Len(s) |-> LowerChar(s[i])]

\* a lookup that keeps the letter case
keepcase(s) == s

\* os.path.splitext on one path component: the extension starts at the last
\* dot, unless only dots precede it
splitext(name) ==
    LET dots == { i \in 1..Len(name) : name[i] = "." }
        d    == IF dots = {} THEN 0 ELSE CHOOSE i \in dots : \A j \in dots : j <= i
    IN  IF d > 0 /\ \E j \in 1..(d - 1) : name[j] # "."
        THEN << SubSeq(name, 1, d - 1), SubSeq(name, d, Len(name)) >>
        ELSE << name, << >> >>

\* os.path.splitext on a path: only the last component has an extension
path_splitext(path) ==
    IF path = << >> THEN << << >>, << >> >>
    ELSE LET sp == splitext(path[Len(path)])
         IN  << SubSeq(path, 1, Len(path) - 1) \o << sp[1] >>, sp[2] >>

\* os.path.join
join(a, b) == a \o b

\* os.path.dirname of a path with at least one component
dirname(path) == SubSeq(path, 1, Len(path) - 1)

\* os.path.relpath(path, start) for a path under start
relpath(path, start) == SubSeq(path, Len(start) + 1, Len(path))

\* str.startswith(".")
startswith_dot(name) == name # << >> /\ name[1] = "."

\* the plaintext tuple of extract_text_from_file
PlaintextExts ==
    { <<".","t","x","t">>, <<".","m","d">>, <<".","p","y">>, <<".","j","s","o","n">>,
      <<".","c","s","v">>, <<".","t","s","v">>, <<".","l","o","g">>, <<".","x","m","l">>,
      <<".","y","a","m","l">>, <<".","y","m","l">>, <<".","h","t","m","l">>, <<".","h","t","m">>,
      <<".","c","s","s">>, <<".","j","s">>, <<".","j","s","x">>, <<".","t","s">>,
      <<".","t","s","x">>, <<".","s","h">>, <<".","c","m","d">>, <<".","p","s","1">>,
      <<".","s","w","i","f","t">>, <<".","k","t">>, <<".","g","o">>, <<".","r","s">>,
      <<".","l","u","a">>, <<".","p","l">>, <<".","r">>, <<".","m">>,
      <<".","v","b">>, <<".","c","s">>, <<".","a","s","m">>, <<".","d","a","r","t">>,
      <<".","p","h","p">>, <<".","r","b">>, <<".","s","q","l">> }

\* allowed_extensions of convert_files_to_txt
allowed_extensions ==
    { <<".","t","x","t">>, <<".","m","d">>, <<".","p","y">>, <<".","j","s","o","n">>,
      <<".","c","s","v">>, <<".","t","s","v">>, <<".","l","o","g">>, <<".","x","m","l">>,
      <<".","y","a","m","l">>, <<".","y","m","l">>, <<".","h","t","m","l">>, <<".","h","t","m">>,
      <<".","c","s","s">>, <<".","j","s">>, <<".","j","s","x">>, <<".","t","s">>,
      <<".","t","s","x">>, <<".","s","h">>, <<".","c","m","d">>, <<".","p","s","1">>,
      <<".","s","w","i","f","t">>, <<".","k","t">>, <<".","g","o">>, <<".","r","s">>,
      <<".","l","u","a">>, <<".","p","l">>, <<".","r">>, <<".","m">>,
      <<".","v","b">>, <<".","c","s">>, <<".","a","s","m">>, <<".","d","a","r","t">>,
      <<".","p","h","p">>, <<".","r","b">>, <<".","s","q","l">>, <<".","d","o","c">>,
      <<".","d","o","c","x">>, <<".","r","t","f">>, <<".","p","d","f">>, <<".","o","d","t">>,
      <<".","x","l","s">>, <<".","x","l","s","x">>, <<".","x","l","s","m">>, <<".","o","d","s">>,
      <<".","p","p","t">>, <<".","p","p","t","x">>, <<".","o","d","p">>, <<".","i","p","y","n","b">> }

\* the extension extract_text_from_file dispatches on
dispatch_ext_keepcase(filepath) == keepcase(path_splitext(filepath)[2])

dispatch_ext(filepath) == lower(path_splitext(filepath)[2])

\* the extension convert_files_to_txt looks up in allowed_extensions
walk_ext_keepcase(file_name) == keepcase(splitext(file_name)[2])

walk_ext(file_name) == lower(splitext(file_name)[2])

-----------------------------------------------------------------------------
(* Documents and their readers *)

(* What a parsing library finds in a file: units (the text of a plaintext  *)
(* file, the paragraphs of a document, the pages of a PDF, the rows of a   *)
(* sheet, the cells of a notebook), each a sequence of fragments, and the  *)
(* point where reading raises: failAt = 0 never, failAt = k when it comes  *)
(* to the k-th unit (k = 1: on opening the file).                          *)

\* the cell value None
NoneCell == <<"None">>

LogRec(level, msg) == [level |-> level, msg |-> msg]

Raises(doc) == doc.failAt # 0

\* the units read before the reader raised
UnitsRead(doc) ==
    IF Raises(doc)
    THEN SubSeq(doc.units, 1, IF doc.failAt - 1 < Len(doc.units)
                              THEN doc.failAt - 1 ELSE Len(doc.units))
    ELSE doc.units

UnitTexts(units) == [i \in 1..Len(units) |-> Concat(units[i])]

Reading(text, log) == [text |-> text, log |-> log]

_read_plaintext(doc) ==
    IF Raises(doc)
    THEN Reading(<< >>, << LogRec("error", "Error reading plaintext file") >>)
    ELSE Reading(Join(<<"NL">>, UnitTexts(doc.units)), << >>)

_read_docx(doc) ==
    IF Raises(doc)
    THEN Reading(<< >>, << LogRec("error", "Error reading DOCX") >>)
    ELSE Reading(Join(<<"NL">>, UnitTexts(doc.units)), << >>)

\* text_pages is filled inside the try and joined after it
_read_pdf_pymupdf(doc) ==
    Reading(Join(<<"NL">>, UnitTexts(UnitsRead(doc))),
            IF Raises(doc) THEN << LogRec("error", "Error reading PDF (PyMuPDF)") >>
            ELSE << >>)

_read_pdf_pypdf2(doc) ==
    Reading(Join(<<"NL">>, UnitTexts(UnitsRead(doc))),
            IF Raises(doc) THEN << LogRec("error", "Error reading PDF (PyPDF2)") >>
            ELSE << >>)

_read_odt(doc) ==
    IF Raises(doc)
    THEN Reading(<< >>, << LogRec("error", "Error reading ODT") >>)
    ELSE Reading(Join(<<"NL">>, UnitTexts(doc.units)), << >>)

\* a row in which an empty cell is written out as the word None
row_str_NoneAsText(row) ==
    Join(<<"TAB">>, [i \in 1..Len(row) |->
                       IF row[i] = NoneCell THEN <<"N","o","n","e">> ELSE row[i]])

\* "\t".join(str(x) if x is not None else "" for x in row)
row_str(row) ==
    Join(<<"TAB">>, [i \in 1..Len(row) |-> IF row[i] = NoneCell THEN << >> ELSE row[i]])

_read_excel(doc) ==
    IF Raises(doc)
    THEN Reading(<< >>, << LogRec("error", "Error reading Excel file") >>)
    ELSE Reading(Join(<<"NL">>, [i \in 1..Len(doc.units) |-> row_str(doc.units[i])]),
                 << >>)

\* "".join(src) raises on a fragment that is not a string
JoinRaises(src) == \E j \in 1..Len(src) : src[j] = NoneCell

\* a notebook reader that puts a newline between the fragments of a cell too
_read_ipynb_FragmentsOnLines(doc) ==
    IF Raises(doc) \/ \E i \in 1..Len(doc.units) : JoinRaises(doc.units[i])
    THEN Reading(<< >>, << LogRec("error", "Error reading IPYNB") >>)
    ELSE Reading(Join(<<"NL">>, [i \in 1..Len(doc.units) |->
                                   Join(<<"NL">>, doc.units[i])]), << >>)

_read_ipynb(doc) ==
    IF Raises(doc) \/ \E i \in 1..Len(doc.units) : JoinRaises(doc.units[i])
    THEN Reading(<< >>, << LogRec("error", "Error reading IPYNB") >>)
    ELSE Reading(Join(<<"NL">>, UnitTexts(doc.units)), << >>)

-----------------------------------------------------------------------------
(* extract_text_from_file *)

\* the optional libraries: TRUE when the import succeeded
CapNames == {"docx", "fitz", "PyPDF2", "openpyxl", "odf"}

AllCaps == [CapNames -> BOOLEAN]

\* what a call of extract_text_from_file did: the text returned, the branch
\* taken, the readers called and the log records emitted
Extraction(text, branch, calls, log) ==
    [text |-> text, branch |-> branch, calls |-> calls, log |-> log]

Called(reader, branch, reading) ==
    Extraction(reading.text, branch, << reader >>, reading.log)

NotCalled(branch, log) == Extraction(<< >>, branch, << >>, log)

\* a PDF branch that asks PyPDF2 first
pdf_branch_Pypdf2First(doc, c) ==
    IF c["PyPDF2"] THEN Called("_read_pdf_pypdf2", "pdf", _read_pdf_pypdf2(doc))
    ELSE IF c["fitz"] THEN Called("_read_pdf_pymupdf", "pdf", _read_pdf_pymupdf(doc))
    ELSE NotCalled("pdf", << LogRec("warning", "No PDF library installed") >>)

pdf_branch(doc, c) ==
    IF c["fitz"] THEN Called("_read_pdf_pymupdf", "pdf", _read_pdf_pymupdf(doc))
    ELSE IF c["PyPDF2"] THEN Called("_read_pdf_pypdf2", "pdf", _read_pdf_pypdf2(doc))
    ELSE NotCalled("pdf", << LogRec("warning", "No PDF library installed") >>)

\* a docx branch that calls the reader without looking at the import
docx_branch_Unguarded(doc, c) == Called("_read_docx", "docx", _read_docx(doc))

docx_branch(doc, c) ==
    IF c["docx"] THEN Called("_read_docx", "docx", _read_docx(doc))
    ELSE NotCalled("docx", << >>)

extract_text_from_file(filepath, doc, c) ==
    LET ext == dispatch_ext(filepath)
    IN  IF ext \in PlaintextExts
        THEN Called("_read_plaintext", "plaintext", _read_plaintext(doc))
        ELSE IF ext = <<".","d","o","c","x">>
        THEN docx_branch(doc, c)
        ELSE IF ext \in { <<".","d","o","c">>, <<".","r","t","f">> }
        THEN NotCalled("doc_rtf",
                       << LogRec("warning", "Native reading not implemented") >>)
        ELSE IF ext = <<".","p","d","f">>
        THEN pdf_branch(doc, c)
        ELSE IF ext = <<".","o","d","t">>
        THEN IF c["odf"] THEN Called("_read_odt", "odt", _read_odt(doc))
             ELSE NotCalled("odt", << >>)
        ELSE IF ext \in { <<".","x","l","s","x">>, <<".","x","l","s">>,
                          <<".","x","l","s","m">>, <<".","o","d","s">> }
        THEN IF c["openpyxl"] THEN Called("_read_excel", "excel", _read_excel(doc))
             ELSE NotCalled("excel", << >>)
        ELSE IF ext \in { <<".","p","p","t">>, <<".","p","p","t","x">>,
                          <<".","o","d","p">> }
        THEN NotCalled("ppt_odp",
                       << LogRec("warning", "Parsing for PPT/ODP not implemented") >>)
        ELSE IF ext = <<".","i","p","y","n","b">>
        THEN Called("_read_ipynb", "ipynb", _read_ipynb(doc))
        ELSE NotCalled("none", << >>)

-----------------------------------------------------------------------------
(* The input tree and the output tree *)

input_dir == << <<"i","n">> >>

output_dir == << <<"o","u","t">> >>

\* max_file_size, by default
max_file_size == 5 * 1024 * 1024

Variants == {"files_2_zip", "raw_text_2_utf8", "files_2_text"}

Doc(units, failAt) == [units |-> units, failAt |-> failAt]

\* one unit holding one fragment
OneText(t) == Doc(<< << t >> >>, 0)

PlainDocs ==
    { OneText(<<"a">>),                \* text that is kept as it is
      OneText(<<"NUL", "a", " ">>),    \* text the sanitizer changes
      OneText(<<"NUL">>),              \* only a control character
      OneText(<<" ", "NL">>),          \* only whitespace
      Doc(<< << <<"a">> >> >>, 1) }    \* unreadable

PdfDocs ==
    { Doc(<< << <<"a">> >>, << <<"e">> >> >>, 0),   \* two pages
      Doc(<< << <<"a">> >>, << <<"e">> >> >>, 2),   \* the second page raises
      Doc(<< << <<"a">> >> >>, 1) }                  \* cannot be opened

DocxDocs ==
    { Doc(<< << <<"e">> >> >>, 0),
      Doc(<< << <<"e">> >>, << <<"a">> >> >>, 2) }

File(dir, name, doc, size) == [dir |-> dir, name |-> name, doc |-> doc, size |-> size]



RootDir == << >>
SubDir == << <<"s">> >>
TxtDir == << <<"a",".","t","x","t">> >>       \* a directory named a.txt
HiddenDir == << <<".","g">> >>

Name_a_md == <<"a",".","m","d">>
Name_a_py == <<"a",".","p","y">>
Name_a_PDF == <<"a",".","P","D","F">>
Name_a_docx == <<"a",".","d","o","c","x">>
Name_a_odt == <<"a",".","o","d","t">>
Name_a_XLS == <<"a",".","X","L","S">>
Name_hidden == <<".","h",".","m","d">>
Name_a_zip == <<"a",".","z","i","p">>
Name_B_t_Md == <<"B",".","t",".","M","d">>

\* the files an input tree of this model can hold; size -1 stands for a
\* file os.path.getsize raises on
InputFiles ==
    { File(RootDir, Name_a_md, d, 10) : d \in PlainDocs }
    \cup { File(RootDir, Name_a_py, d, 10) :
             d \in { OneText(<<"e">>), Doc(<< << <<"e">> >> >>, 1) } }
    \cup { File(RootDir, Name_a_PDF, d, 10) : d \in PdfDocs }
    \cup { File(RootDir, Name_a_docx, d, 10) : d \in DocxDocs }
    \cup { File(SubDir, Name_a_PDF, Doc(<< << <<"a">> >>, << <<"e">> >> >>, 0), 10),
           File(SubDir, Name_a_md, OneText(<<"NUL">>), 10),
           File(TxtDir, Name_a_md, OneText(<<"e">>), 10),
           File(SubDir, Name_a_odt, OneText(<<"e">>), 10),
           File(SubDir, Name_a_XLS, Doc(<< << <<"a">>, NoneCell, <<"e">> >> >>, 0), 10),
           File(HiddenDir, Name_a_md, OneText(<<"a">>), 10),
           File(RootDir, Name_hidden, OneText(<<"a">>), 10),
           File(RootDir, Name_a_zip, OneText(<<"a">>), 10),
           File(SubDir, Name_B_t_Md, OneText(<<"a">>), 10),
           File(RootDir, Name_B_t_Md, OneText(<<"a">>), max_file_size + 1),
           File(RootDir, Name_B_t_Md, OneText(<<"a">>), max_file_size),
           File(SubDir, Name_a_py, OneText(<<"a">>), -1) }

InputPath(f) == [dir |-> f.dir, name |-> f.name]

\* the library configurations the runs of this model start from
PipelineCaps ==
    { [n \in CapNames |-> TRUE],
      [n \in CapNames |-> FALSE],
      [n \in CapNames |-> n = "PyPDF2"] }

\* output trees an earlier run can have left: none, one with the file a.txt,
\* one with the directory a.txt
PriorTrees ==
    { [dirs |-> {}, files |-> << >>],
      [dirs |-> { output_dir },
       files |-> (join(output_dir, << <<"a",".","t","x","t">> >>) :> <<"e", "e">>)],
      [dirs |-> { output_dir, join(output_dir, TxtDir) }, files |-> << >>] }

IsPrefix(p, q) == Len(p) <= Len(q) /\ SubSeq(q, 1, Len(p)) = p

\* output_dir and every directory between it and path, path included
DirChain(path) == { SubSeq(path, 1, k) : k \in Len(output_dir)..Len(path) }

-----------------------------------------------------------------------------
(* convert_files_to_txt *)

NoFile == File(<< >>, << >>, Doc(<< >>, 0), 0)

Iteration(f, outcome, out_path, raw, text, calls) ==
    [file |-> f, outcome |-> outcome, out_path |-> out_path,
     raw_text |-> raw, text |-> text, calls |-> calls]

NoCur == Iteration(NoFile, "none", << >>, << >>, << >>, << >>)

\* a loop that hands the extracted text to out_f.write as it is, in every script
output_text_Raw(v, raw_text) == raw_text

\* the text the script hands to out_f.write: files_2_text.py has no sanitizer
output_text(v, raw_text) ==
    IF v = "files_2_text" THEN raw_text ELSE sanitize_text(raw_text)

\* a loop that writes whatever it extracted
skips_NeverSkip(v, raw_text) == FALSE

\* a loop that skips a file only when nothing at all was extracted
skips_RawEmpty(v, raw_text) == raw_text = << >>

\* "if not sanitized_text" / "if not text.strip()"
skips(v, raw_text) ==
    IF v = "files_2_text" THEN Strip(raw_text) = << >>
    ELSE sanitize_text(raw_text) = << >>

\* a mapping that keeps the input's extension in front of .txt
txt_out_path_KeepExt(f) ==
    join(output_dir, join(f.dir, << f.name \o <<".","t","x","t">> >>))

\* rel_path, base_name, txt_rel_path and out_path of one input file
txt_out_path(f) ==
    LET full_path    == join(join(input_dir, f.dir), << f.name >>)
        rel_path     == relpath(full_path, input_dir)
        base_name    == path_splitext(rel_path)[1]
        txt_rel_path == SubSeq(base_name, 1, Len(base_name) - 1)
                        \o << base_name[Len(base_name)] \o <<".","t","x","t">> >>
    IN  join(output_dir, txt_rel_path)

\* os.walk prunes hidden directories when skip_hidden is set
InWalk(f) == ~ (skip_hidden /\ \E i \in 1..Len(f.dir) : startswith_dot(f.dir[i]))

\* os.walk is top-down: it lists a directory's files before it descends, and
\* never comes back to a directory it has left
CanFollow(f) ==
    /\ InputPath(f) \notin walked
    /\ \/ walked = {}
       \/ f.dir = cur.file.dir
       \/ /\ \A w \in walked : w.dir # f.dir
          /\ \A w \in walked : ~ IsPrefix(f.dir, w.dir)

\* what the environment does to this iteration's output
IoOutcomes == {"ok", "mkdir_fails", "open_fails", "write_fails"}

Start(io) ==
    /\ status = "ready"
    /\ IF output_dir \in outDirs
       THEN /\ status' = "running"
            /\ emitted' = << LogRec("info", "Starting conversion") >>
            /\ UNCHANGED outDirs
       ELSE IF io = "mkdir_fails"
       THEN /\ status' = "raised"
            /\ emitted' = << >>
            /\ UNCHANGED outDirs
       ELSE /\ status' = "running"
            /\ emitted' = << LogRec("info", "Starting conversion") >>
            /\ outDirs' = outDirs \cup { output_dir }
    /\ UNCHANGED << variant, caps, skip_hidden, outFiles, walked, cur, wrote,
                    converted, arg, res >>

\* what one iteration computes from its file alone, before it touches the
\* output tree: the extension looked up, the output path, the extraction and
\* the text to write
Computation(f, c, v) ==
    LET ex == extract_text_from_file(
                  join(join(input_dir, f.dir), << f.name >>), f.doc, c)
    IN  [ext      |-> walk_ext(f.name),
         out_path |-> txt_out_path(f),
         ex       |-> ex,
         text     |-> output_text(v, ex.text),
         skip     |-> skips(v, ex.text)]

\* Computation, tabulated
Computed ==
    [f \in InputFiles |-> [c \in PipelineCaps |-> [v \in Variants |->
        Computation(f, c, v)]]]

\* one iteration of "for file_name in files"
ProcessFile(f, io) ==
    /\ status = "running"
    /\ Cardinality(walked) < MaxFiles
    /\ InWalk(f)
    /\ CanFollow(f)
    /\ walked' = walked \cup { InputPath(f) }
    /\ LET comp     == Computed[f][caps][variant]
           out_path == comp.out_path
           out_sub  == dirname(out_path)
           ex       == comp.ex
           text     == comp.text
           Skip(outcome, log) ==
               /\ cur' = Iteration(f, outcome, << >>, << >>, << >>, << >>)
               /\ emitted' = log
               /\ UNCHANGED << status, outDirs, outFiles, wrote, converted >>
       IN  IF skip_hidden /\ startswith_dot(f.name)
           THEN Skip("hidden", << >>)
           ELSE IF comp.ext \notin allowed_extensions
           THEN Skip("not_allowed", << >>)
           ELSE IF f.size < 0
           THEN Skip("size_error", << LogRec("error", "Could not check file size") >>)
           ELSE IF f.size > max_file_size
           THEN Skip("too_large", << >>)
           ELSE IF \/ \E d \in DirChain(out_sub) : d \in DOMAIN outFiles
                   \/ (out_sub \notin outDirs /\ io = "mkdir_fails")
           THEN \* os.makedirs raises, outside any try
                /\ cur' = Iteration(f, "makedirs_raised", out_path, << >>, << >>, << >>)
                /\ status' = "raised"
                /\ emitted' = << >>
                /\ UNCHANGED << outDirs, outFiles, wrote, converted >>
           ELSE /\ outDirs' = outDirs \cup DirChain(out_sub)
                /\ IF comp.skip
                   THEN /\ cur' = Iteration(f, "empty", out_path, ex.text, text, ex.calls)
                        /\ emitted' = ex.log
                        /\ UNCHANGED << status, outFiles, wrote, converted >>
                   ELSE IF out_path \in outDirs' \/ io = "open_fails"
                   THEN /\ cur' = Iteration(f, "write_failed", out_path, ex.text, text,
                                            ex.calls)
                        /\ emitted' = ex.log \o << LogRec("error", "Error writing") >>
                        /\ UNCHANGED << status, outFiles, wrote, converted >>
                   ELSE IF io = "write_fails"
                   THEN \* open() has truncated the file
                        /\ cur' = Iteration(f, "write_failed", out_path, ex.text, text,
                                            ex.calls)
                        /\ outFiles' = (out_path :> << >>) @@ outFiles
                        /\ emitted' = ex.log \o << LogRec("error", "Error writing") >>
                        /\ UNCHANGED << status, wrote, converted >>
                   ELSE /\ cur' = Iteration(f, "written", out_path, ex.text, text,
                                            ex.calls)
                        /\ outFiles' = (out_path :> text) @@ outFiles
                        /\ wrote' = wrote \cup { out_path }
                        /\ converted' = converted \cup { InputPath(f) }
                        /\ emitted' = ex.log \o << LogRec("info", "Wrote text to") >>
                        /\ UNCHANGED status
    /\ UNCHANGED << variant, caps, skip_hidden, arg, res >>

\* the walk is over
Finish ==
    /\ status = "running"
    /\ status' = "done"
    /\ emitted' = << LogRec("info", "Conversion complete.") >>
    /\ UNCHANGED << variant, caps, skip_hidden, outDirs, outFiles, walked, cur,
                    wrote, converted, arg, res >>

Init ==
    /\ variant \in Variants
    /\ caps \in PipelineCaps
    /\ skip_hidden \in BOOLEAN
    /\ \E t \in PriorTrees : outDirs = t.dirs /\ outFiles = t.files
    /\ walked = {}
    /\ cur = NoCur
    /\ emitted = << >>
    /\ status = "ready"
    /\ wrote = {}
    /\ converted = {}
    /\ arg = << >>
    /\ res = << >>

Next ==
    \/ \E io \in {"ok", "mkdir_fails"} : Start(io)
    \/ \E f \in InputFiles, io \in IoOutcomes : ProcessFile(f, io)
    \/ Finish

Spec == Init /\ [][Next]_vars

-----------------------------------------------------------------------------
(* sanitize_text on its own: every text up to MaxLen characters is          *)
(* sanitized, and the result is sanitized once more.                        *)

\* the variables of convert_files_to_txt, at rest
PipelineIdle ==
    /\ variant = "files_2_zip"
    /\ skip_hidden = TRUE
    /\ outDirs = {}
    /\ outFiles = << >>
    /\ walked = {}
    /\ cur = NoCur
    /\ wrote = {}
    /\ converted = {}

PipelineUnchanged ==
    UNCHANGED << variant, skip_hidden, outDirs, outFiles, walked, cur, wrote,
                 converted >>

InitSanitize ==
    /\ PipelineIdle
    /\ caps = [n \in CapNames |-> FALSE]
    /\ emitted = << >>
    /\ arg \in TextsUpTo(MaxLen)
    /\ res = << >>
    /\ status = "input"

\* res collects the results: of sanitize_text(arg), then of sanitize_text of that
Sanitize ==
    /\ status = "input"
    /\ res' = << sanitize_text(arg) >>
    /\ status' = "sanitized"
    /\ PipelineUnchanged
    /\ UNCHANGED << caps, emitted, arg >>

SanitizeAgain ==
    /\ status = "sanitized"
    /\ res' = Append(res, sanitize_text(res[1]))
    /\ status' = "resanitized"
    /\ PipelineUnchanged
    /\ UNCHANGED << caps, emitted, arg >>

NextSanitize == Sanitize \/ SanitizeAgain

SpecSanitize == InitSanitize /\ [][NextSanitize]_vars

-----------------------------------------------------------------------------
(* extract_text_from_file on its own: one call, for every extension of the  *)
(* tables in lower and upper case, every set of libraries and documents of  *)
(* up to MaxUnits units.                                                    *)

\* most units (pages, paragraphs, rows, cells) of a document
MaxUnits == 2

UpperChar(c) ==
    IF \E i \in 1..26 : LowerLetters[i] = c
    THEN UpperLetters[CHOOSE i \in 1..26 : LowerLetters[i] = c]
    ELSE c

upper(s) == [i \in 1..Len(s) |-> UpperChar(s[i])]

\* every letter's case flipped
swapcase(s) ==
    [i \in 1..Len(s) |-> IF LowerChar(s[i]) = s[i] THEN UpperChar(s[i])
                         ELSE LowerChar(s[i])]

\* the first letter of the extension in upper case
capitalized(ext) ==
    [i \in 1..Len(ext) |-> IF i = 2 THEN UpperChar(ext[i]) ELSE ext[i]]

ProbeExts ==
    allowed_extensions
    \cup { <<".","z","i","p">>, <<".","t","x","t","x">>, << >> }

ProbeNames ==
    { <<"a">> \o e : e \in ProbeExts }
    \cup { <<"a">> \o upper(e) : e \in ProbeExts }
    \cup { <<"a">> \o capitalized(e) :
             e \in { <<".","p","d","f">>, <<".","d","o","c","x">>, <<".","m","d">> } }

\* a unit of one fragment, a unit of two fragments with a None, an empty unit
UnitPool == { << <<"a">> >>, << <<"e">>, NoneCell >> }

ProbeDocs ==
    UNION { { Doc(u, k) : k \in 0..(Len(u) + 1) } :
            u \in UNION { [1..n -> UnitPool] : n \in 0..MaxUnits } }

InitExtract ==
    /\ PipelineIdle
    /\ caps \in AllCaps
    /\ emitted = << >>
    /\ arg \in [path : { join(input_dir, << n >>) : n \in ProbeNames },
                doc : ProbeDocs]
    /\ res = NotCalled("none", << >>)
    /\ status = "input"

Extract ==
    /\ status = "input"
    /\ res' = extract_text_from_file(arg.path, arg.doc, caps)
    /\ emitted' = res'.log
    /\ status' = "extracted"
    /\ PipelineUnchanged
    /\ UNCHANGED << caps, arg >>

NextExtract == Extract

SpecExtract == InitExtract /\ [][NextExtract]_vars

-----------------------------------------------------------------------------
(* Properties *)

\* the last iteration got as far as extracting text
Extracted == cur.outcome \in {"empty", "written", "write_failed"}

\* the last step was a loop iteration
IterationStep == walked' # walked

C2_OutputPathMapping ==
    cur.outcome \in {"empty", "written", "write_failed", "makedirs_raised"} =>
        \E k \in 2..Len(cur.file.name) :
            /\ cur.file.name[k] = "."
            /\ \A j \in (k + 1)..Len(cur.file.name) : cur.file.name[j] # "."
            /\ cur.out_path =
                   output_dir \o cur.file.dir
                   \o << SubSeq(cur.file.name, 1, k - 1) \o <<".","t","x","t">> >>

\* s/B.t.Md was written to out/s/B.t.txt
C2_Witness ==
    /\ cur.outcome = "written"
    /\ cur.file.dir = SubDir
    /\ cur.file.name = Name_B_t_Md
    /\ cur.out_path = << <<"o","u","t">>, <<"s">>, <<"B",".","t",".","t","x","t">> >>
    /\ cur.out_path \in DOMAIN outFiles

\* C3: sanitizing a sanitized text gives the same text.
C3_SanitizeIdempotent ==
    status = "resanitized" => res[2] = res[1]

\* a text with a control character between two letters was sanitized twice
C3_Witness ==
    /\ status = "resanitized"
    /\ arg = <<"a", "NUL", "a">>
    /\ res[1] = <<"a", " ", "a">>

\* C4: the sanitized text holds only printable characters, newlines,
\* carriage returns and tabs; it is the normalized input with every other
\* character replaced by one space and every printable character, newline,
\* carriage return and tab kept, less the whitespace str.strip() takes off
\* the two ends.
C4_SanitizeReplacesNonPrintable ==
    status \in {"sanitized", "resanitized"} =>
        LET out  == res[1]
            n    == NFC(arg)
            Kept == PrintableChars \cup {"NL", "CR", "TAB"}
            Repl(ch) == IF ch \in Kept THEN ch ELSE " "
        IN  /\ \A i \in 1..Len(out) : out[i] \in Kept
            /\ \E k \in 0..Len(n) :
                  /\ k + Len(out) <= Len(n)
                  /\ \A i \in 1..Len(out) : out[i] = Repl(n[k + i])
                  /\ \A j \in (1..k) \cup ((k + Len(out) + 1)..Len(n)) :
                        Repl(n[j]) \in {" ", "NL", "CR", "TAB"}
                  /\ out # << >> =>
                        /\ out[1] \notin {" ", "NL", "CR", "TAB"}
                        /\ out[Len(out)] \notin {" ", "NL", "CR", "TAB"}

\* a vertical tab inside the text became a space
C4_Witness ==
    /\ status = "sanitized"
    /\ arg = <<"a", "VT", "e">>
    /\ res[1] = <<"a", " ", "e">>

\* the library a file name's category needs is not there
CapabilityMissing(name, c) ==
    LET e == lower(splitext(name)[2])
    IN  \/ e = <<".","d","o","c","x">> /\ ~ c["docx"]
        \/ e = <<".","o","d","t">> /\ ~ c["odf"]
        \/ e \in { <<".","x","l","s","x">>, <<".","x","l","s">>,
                   <<".","x","l","s","m">>, <<".","o","d","s">> } /\ ~ c["openpyxl"]
        \/ e = <<".","p","d","f">> /\ ~ c["fitz"] /\ ~ c["PyPDF2"]

\* C5: for a file whose category lacks its library, extraction calls no
\* reader and returns the empty text, and the loop writes nothing for it.
C5_MissingCapabilityNoOutput ==
    (Extracted /\ CapabilityMissing(cur.file.name, caps)) =>
        /\ cur.calls = << >>
        /\ cur.raw_text = << >>
        /\ cur.outcome = "empty"
        /\ InputPath(cur.file) \notin converted

\* a readable .docx was skipped because python-docx is not installed
C5_Witness ==
    /\ cur.file.name = Name_a_docx
    /\ cur.file.doc = Doc(<< << <<"e">> >> >>, 0)
    /\ ~ caps["docx"]
    /\ cur.outcome = "empty"
    /\ cur.out_path \notin DOMAIN outFiles

\* C6: a failure to produce one file's output (its subdirectory cannot be
\* created, its file cannot be opened or written) is logged and does not end
\* the run: no exception leaves convert_files_to_txt.
C6_FileFailureNotFatal ==
    cur.outcome \in {"makedirs_raised", "write_failed"} =>
        /\ status # "raised"
        /\ status = "running" => \E i \in 1..Len(emitted) : emitted[i].level = "error"

\* C7: when the reader that was called raises, the extraction returns the
\* empty text and logs an error.
C7_ExtractorsFailClosed ==
    (status = "extracted" /\ res.calls # << >> /\ Raises(arg.doc)) =>
        /\ res.text = << >>
        /\ \E i \in 1..Len(res.log) : res.log[i].level = "error"

\* C8: a .pdf goes to PyMuPDF whenever it is installed, to PyPDF2 only when
\* PyMuPDF is not and PyPDF2 is, and to no reader (empty text, a warning)
\* when neither is; one reader at most is called, also when it raises.
C8_PdfEngineSelection ==
    (status = "extracted" /\ lower(path_splitext(arg.path)[2]) = <<".","p","d","f">>) =>
        /\ caps["fitz"] => res.calls = << "_read_pdf_pymupdf" >>
        /\ (~ caps["fitz"] /\ caps["PyPDF2"]) => res.calls = << "_read_pdf_pypdf2" >>
        /\ (~ caps["fitz"] /\ ~ caps["PyPDF2"]) =>
              /\ res.calls = << >>
              /\ res.text = << >>
              /\ res.log = << LogRec("warning", "No PDF library installed") >>
        /\ Len(res.calls) <= 1

\* both engines are installed, PyMuPDF raised on the file, PyPDF2 was not tried
C8_Witness ==
    /\ status = "extracted"
    /\ lower(path_splitext(arg.path)[2]) = <<".","p","d","f">>
    /\ caps["fitz"] /\ caps["PyPDF2"]
    /\ Raises(arg.doc)
    /\ res.calls = << "_read_pdf_pymupdf" >>

\* C9: when the run is over, it has written as many output files as it has
\* converted inputs.
C9_OneOutputPerConvertedInput ==
    status = "done" => Cardinality(wrote) = Cardinality(converted)

\* the case variants of a name's extension
CaseVariants(name) ==
    LET sp == splitext(name)
    IN  { sp[1] \o lower(sp[2]), sp[1] \o upper(sp[2]), sp[1] \o swapcase(sp[2]) }

\* C10: a name and the same name with its extension in another letter case
\* take the same branch of extract_text_from_file, whatever the libraries and
\* whatever the file holds (the document given, or an unreadable one), and
\* get the same answer from the allow-list.
C10_ClassificationCaseInsensitive ==
    status = "extracted" =>
        \A v \in CaseVariants(arg.path[Len(arg.path)]) :
            /\ extract_text_from_file(join(input_dir, << v >>), arg.doc, caps).branch
                   = res.branch
            /\ extract_text_from_file(join(input_dir, << v >>), Doc(<< >>, 1), caps).branch
                   = res.branch
            /\ (walk_ext(v) \in allowed_extensions)
                   <=> (walk_ext(arg.path[Len(arg.path)]) \in allowed_extensions)

\* a.PDF took the PDF branch and is on the allow-list
C10_Witness ==
    /\ status = "extracted"
    /\ arg.path[Len(arg.path)] = <<"a",".","P","D","F">>
    /\ res.branch = "pdf"
    /\ walk_ext(arg.path[Len(arg.path)]) \in allowed_extensions

-----------------------------------------------------------------------------
(* zip_output_dir: the output root is the string the caller wrote, the tree *)
(* under it a set of files; the walk hands them to the loop one at a time.  *)

\* str.rfind("/")
rfind_slash(p) ==
    LET at == { i \in 1..Len(p) : p[i] = "/" }
    IN  IF at = {} THEN 0 ELSE CHOOSE i \in at : \A j \in at : j <= i

\* str.rstrip("/")
RECURSIVE rstrip_slash(_)
rstrip_slash(p) ==
    IF p # << >> /\ p[Len(p)] = "/" THEN rstrip_slash(SubSeq(p, 1, Len(p) - 1))
    ELSE p

\* os.path.dirname on a string: what precedes the last separator
str_dirname(p) ==
    LET head == SubSeq(p, 1, rfind_slash(p))
    IN  IF head # << >> /\ \E i \in 1..Len(head) : head[i] # "/"
        THEN rstrip_slash(head) ELSE head

\* os.path.join on strings, for a relative second part
str_join(a, b) ==
    IF a = << >> \/ a[Len(a)] = "/" THEN a \o b ELSE a \o <<"/">> \o b

\* the components of a path string
RECURSIVE Components(_)
Components(p) ==
    IF p = << >> THEN << >>
    ELSE LET cut  == { i \in 1..Len(p) : p[i] = "/" }
             k    == IF cut = {} THEN Len(p) + 1
                     ELSE CHOOSE i \in cut : \A j \in cut : i <= j
             rest == Components(SubSeq(p, k + 1, Len(p)))
         IN  IF k = 1 THEN rest ELSE << SubSeq(p, 1, k - 1) >> \o rest

\* str.endswith(".txt"), read as any other suffix
endswith_txt_AnyCase(name) ==
    Len(name) >= 4 /\ lower(SubSeq(name, Len(name) - 3, Len(name))) = <<".","t","x","t">>

\* str.endswith(".txt")
endswith_txt(name) ==
    Len(name) >= 4 /\ SubSeq(name, Len(name) - 3, Len(name)) = <<".","t","x","t">>

\* zip_name, by default
DefaultZipName ==
    <<"c","o","n","v","e","r","t","e","d","_","f","i","l","e","s",".","z","i","p">>

ZipNames == { DefaultZipName, <<"m",".","z","i","p">> }

\* the ways a caller writes the output root
OutputDirStrings ==
    { <<"o">>, <<"o","/">>, <<"/","o">>, <<"/","o","/">>,
      <<"p","/","o">>, <<"p","/","o","/">> }

\* files a tree under the output root can hold, by their path below it
TreePool ==
    { << <<"a",".","t","x","t">> >>,
      << <<"a",".","T","X","T">> >>,
      << <<"n",".","m","d">> >>,
      << <<".","t","x","t">> >>,
      << <<"s">>, <<"b",".","t","x","t">> >>,
      << <<"d",".","t","x","t">>, <<"e",".","m","d">> >> }

EmptyArchive == << >>

\* zf.write(full_path, arcname): one more entry of that name
AddEntry(entries, arcname) ==
    IF arcname \in DOMAIN entries
    THEN [entries EXCEPT ![arcname] = @ + 1]
    ELSE (arcname :> 1) @@ entries

Archive(zip_path, entries) == [zip_path |-> zip_path, entries |-> entries]

InitZip ==
    /\ variant = "files_2_zip"
    /\ skip_hidden = TRUE
    /\ caps = [n \in CapNames |-> FALSE]
    /\ emitted = << >>
    /\ cur = NoCur
    /\ wrote = {}
    /\ converted = {}
    /\ outDirs = {}
    /\ arg \in [output_dir : OutputDirStrings, zip_name : ZipNames]
    /\ \E tree \in SUBSET TreePool :
          outFiles = [p \in { join(Components(arg.output_dir), t) : t \in tree }
                        |-> <<"a">>]
    /\ walked = {}
    /\ res = Archive(<< >>, EmptyArchive)
    /\ status = "input"

\* zipfile.ZipFile(zip_path, "w") creates the archive file
ZipOpen ==
    /\ status = "input"
    /\ LET zip_path == str_join(str_dirname(arg.output_dir), arg.zip_name)
       IN  /\ res' = Archive(zip_path, EmptyArchive)
           /\ outFiles' = (Components(zip_path) :> << >>) @@ outFiles
    /\ emitted' = << LogRec("info", "Zipping all text files") >>
    /\ status' = "zipping"
    /\ UNCHANGED << variant, caps, skip_hidden, outDirs, walked, cur, wrote,
                    converted, arg >>

\* one iteration of the loop over os.walk(output_dir)
ZipFile(full_path) ==
    /\ status = "zipping"
    /\ full_path \in DOMAIN outFiles
    /\ full_path \notin walked
    /\ IsPrefix(Components(arg.output_dir), full_path)
    /\ Len(full_path) > Len(Components(arg.output_dir))
    /\ walked' = walked \cup { full_path }
    /\ IF endswith_txt(full_path[Len(full_path)])
       THEN res' = Archive(res.zip_path,
                           AddEntry(res.entries,
                                    relpath(full_path, Components(arg.output_dir))))
       ELSE UNCHANGED res
    /\ UNCHANGED << variant, caps, skip_hidden, outDirs, outFiles, cur, emitted,
                    status, wrote, converted, arg >>

\* the walk is over and the archive is closed
ZipClose ==
    /\ status = "zipping"
    /\ \A p \in DOMAIN outFiles :
          (IsPrefix(Components(arg.output_dir), p)
             /\ Len(p) > Len(Components(arg.output_dir))) => p \in walked
    /\ status' = "zipped"
    /\ emitted' = << LogRec("info", "Created zip archive") >>
    /\ UNCHANGED << variant, caps, skip_hidden, outDirs, outFiles, walked, cur,
                    wrote, converted, arg, res >>

NextZip ==
    \/ ZipOpen
    \/ \E p \in DOMAIN outFiles : ZipFile(p)
    \/ ZipClose

SpecZip == InitZip /\ [][NextZip]_vars

-----------------------------------------------------------------------------
(* Properties of zip_output_dir *)

\* the output root, as the walk sees it
ZipRoot == Components(arg.output_dir)

\* the files the walk finds under the output root
UnderZipRoot == { p \in DOMAIN outFiles : IsPrefix(ZipRoot, p) /\ Len(p) > Len(ZipRoot) }

\* the last four characters of a file name are ".txt"
NamedDotTxt(p) ==
    LET n == p[Len(p)]
    IN  /\ Len(n) >= 4
        /\ n[Len(n) - 3] = "." /\ n[Len(n) - 2] = "t"
        /\ n[Len(n) - 1] = "x" /\ n[Len(n)] = "t"

\* C11: once the archive is closed it holds exactly the files under the output
\* root whose name ends in .txt, each once and under its path relative to the
\* output root, and no file of another type.
C11_ArchiveHoldsExactlyTxtFiles ==
    status = "zipped" =>
        /\ \A p \in UnderZipRoot :
              NamedDotTxt(p) =>
                  \E e \in DOMAIN res.entries :
                      /\ ZipRoot \o e = p
                      /\ res.entries[e] = 1
        /\ \A e \in DOMAIN res.entries :
              /\ ZipRoot \o e \in UnderZipRoot
              /\ NamedDotTxt(ZipRoot \o e)

C11_Witness ==
    /\ status = "zipped"
    /\ ZipRoot \o << <<"a",".","T","X","T">> >> \in UnderZipRoot
    /\ ZipRoot \o << <<"n",".","m","d">> >> \in UnderZipRoot
    /\ << <<"s">>, <<"b",".","t","x","t">> >> \in DOMAIN res.entries
    /\ << <<".","t","x","t">> >> \in DOMAIN res.entries
    /\ Cardinality(DOMAIN res.entries) = 2

\* C12: however the output root is written, the archive file is created in
\* the parent directory of the output root and never inside the output root.
C12_ArchiveBesideOutputRoot ==
    status # "input" =>
        /\ Components(res.zip_path) = dirname(ZipRoot) \o << arg.zip_name >>
        /\ ~ IsPrefix(ZipRoot, Components(res.zip_path))

-----------------------------------------------------------------------------
(* _read_ipynb on parsed notebooks: the JSON document, its optional list of *)
(* cells, each cell's optional list of source fragments.                    *)

\* most fragments in the source of a cell
MaxFrags == 2

\* a cell as json.load returns it
NotebookCell(has_source, source) == [has_source |-> has_source, source |-> source]

\* the file: valid is FALSE when json.load raises or the document is no object
Notebook(valid, has_cells, cells) ==
    [valid |-> valid, has_cells |-> has_cells, cells |-> cells]

\* cell.get("source", [])
cell_source(cell) == IF cell.has_source THEN cell.source ELSE << >>

\* data.get("cells", [])
notebook_cells(data) == IF data.has_cells THEN data.cells ELSE << >>

\* the notebook as the reader meets it: one unit per cell
NotebookDoc(data) ==
    Doc([i \in 1..Len(notebook_cells(data)) |-> cell_source(notebook_cells(data)[i])],
        IF data.valid THEN 0 ELSE 1)

\* fragments of a source list; the last one is a JSON null
FragmentPool == { <<"a">>, <<"e", "NL">>, NoneCell }

SourcePool == UNION { [1..n -> FragmentPool] : n \in 0..MaxFrags }

CellPool ==
    { NotebookCell(TRUE, src) : src \in SourcePool } \cup { NotebookCell(FALSE, << >>) }

Notebooks ==
    { Notebook(TRUE, TRUE, cells) :
        cells \in UNION { [1..n -> CellPool] : n \in 0..MaxUnits } }
    \cup { Notebook(TRUE, FALSE, << >>), Notebook(FALSE, FALSE, << >>) }

Name_a_ipynb == <<"a",".","i","p","y","n","b">>

InitNotebook ==
    /\ PipelineIdle
    /\ caps \in { [n \in CapNames |-> FALSE], [n \in CapNames |-> TRUE] }
    /\ emitted = << >>
    /\ arg \in [path : { join(input_dir, << Name_a_ipynb >>) }, data : Notebooks]
    /\ res = NotCalled("none", << >>)
    /\ status = "input"

ReadNotebook ==
    /\ status = "input"
    /\ res' = extract_text_from_file(arg.path, NotebookDoc(arg.data), caps)
    /\ emitted' = res'.log
    /\ status' = "extracted"
    /\ PipelineUnchanged
    /\ UNCHANGED << caps, arg >>

NextNotebook == ReadNotebook

SpecNotebook == InitNotebook /\ [][NextNotebook]_vars

\* every fragment of every cell is a string
WellFormed(data) ==
    /\ data.valid
    /\ \A i \in 1..Len(notebook_cells(data)) :
          ~ JoinRaises(cell_source(notebook_cells(data)[i]))

\* the characters in the first n fragments of a source list
RECURSIVE FragmentChars(_, _)
FragmentChars(src, n) ==
    IF n = 0 THEN 0 ELSE Len(src[n]) + FragmentChars(src, n - 1)

\* where the text of cell i starts in the result: after the texts of the
\* cells before it and one newline for each
RECURSIVE CellOffset(_, _)
CellOffset(cells, i) ==
    IF i = 1 THEN 0
    ELSE CellOffset(cells, i - 1)
         + FragmentChars(cell_source(cells[i - 1]), Len(cell_source(cells[i - 1]))) + 1

\* C13: the text read from a well-formed notebook is laid out cell by cell in
\* cell order: every fragment of a cell stands, character for character, right
\* after the fragments before it, one newline stands between consecutive cells,
\* and nothing else is in the text (a cell without a source takes no room);
\* nothing is logged. A malformed notebook gives the empty text and one
\* logged error.
C13_NotebookText ==
    status = "extracted" =>
        LET cells == notebook_cells(arg.data)
            n     == Len(cells)
            text  == res.text
        IN  /\ res.calls = << "_read_ipynb" >>
            /\ WellFormed(arg.data) =>
                  /\ res.log = << >>
                  /\ Len(text) = IF n = 0 THEN 0 ELSE CellOffset(cells, n + 1) - 1
                  /\ \A i \in 1..n :
                        LET src == cell_source(cells[i])
                        IN  /\ \A j \in 1..Len(src) : \A k \in 1..Len(src[j]) :
                                  text[CellOffset(cells, i) + FragmentChars(src, j - 1) + k]
                                      = src[j][k]
                            /\ i < n => text[CellOffset(cells, i + 1)] = "NL"
            /\ ~ WellFormed(arg.data) =>
                  /\ text = << >>
                  /\ Len(res.log) = 1
                  /\ res.log[1].level = "error"

\* a cell without a source, then a cell with the source ["e\n", "a"]: the
\* text is newline, e, newline, a
C13_Witness ==
    /\ status = "extracted"
    /\ Len(notebook_cells(arg.data)) = 2
    /\ arg.data.cells[1] = NotebookCell(FALSE, << >>)
    /\ arg.data.cells[2] = NotebookCell(TRUE, << <<"e", "NL">>, <<"a">> >>)
    /\ res.text = <<"NL", "e", "NL", "a">>

-----------------------------------------------------------------------------
(* _read_excel on workbooks: sheets in workbook order, rows in sheet order, *)
(* each row a tuple of cell values.                                         *)

\* most sheets of a workbook
MaxSheets == 2

\* cell values as iter_rows(values_only=True) hands them over
TextValue(t) == [kind |-> "text", text |-> t]
IntValue(n) == [kind |-> "int", n |-> n]
NoneValue == [kind |-> "none"]

DigitChars == <<"0","1","2","3","4","5","6","7","8","9">>

\* str(n) for n >= 0
RECURSIVE str_int(_)
str_int(n) ==
    IF n < 10 THEN << DigitChars[n + 1] >>
    ELSE str_int(n \div 10) \o << DigitChars[(n % 10) + 1] >>

\* str(x) for a cell value that is not None
str_value(x) == IF x.kind = "int" THEN str_int(x.n) ELSE x.text

Workbook(sheets, failAt) == [sheets |-> sheets, failAt |-> failAt]

\* for name in wb.sheetnames: for row in sheet.iter_rows(...): the rows in the
\* order the nested loop reaches them
iter_rows(wb) == Concat(wb.sheets)

\* the workbook as the reader meets it: one unit per row, None kept apart
WorkbookDoc(wb) ==
    Doc([k \in 1..Len(iter_rows(wb)) |->
            [i \in 1..Len(iter_rows(wb)[k]) |->
                IF iter_rows(wb)[k][i] = NoneValue THEN NoneCell
                ELSE str_value(iter_rows(wb)[k][i])]],
        wb.failAt)

RowPool ==
    { << TextValue(<<"a">>), NoneValue, TextValue(<<"e">>) >>,
      << NoneValue, IntValue(12) >> }

SheetPool == UNION { [1..n -> RowPool] : n \in 0..MaxUnits }

\* failAt = 1: load_workbook raises
Workbooks ==
    { Workbook(sh, k) :
        sh \in UNION { [1..n -> SheetPool] : n \in 0..MaxSheets }, k \in {0, 1} }

Name_a_xlsx == <<"a",".","x","l","s","x">>

InitWorkbook ==
    /\ PipelineIdle
    /\ caps \in { [n \in CapNames |-> n # "openpyxl"], [n \in CapNames |-> TRUE] }
    /\ emitted = << >>
    /\ arg \in [path : { join(input_dir, << Name_a_xlsx >>) }, wb : Workbooks]
    /\ res = NotCalled("none", << >>)
    /\ status = "input"

ReadWorkbook ==
    /\ status = "input"
    /\ res' = extract_text_from_file(arg.path, WorkbookDoc(arg.wb), caps)
    /\ emitted' = res'.log
    /\ status' = "extracted"
    /\ PipelineUnchanged
    /\ UNCHANGED << caps, arg >>

NextWorkbook == ReadWorkbook

SpecWorkbook == InitWorkbook /\ [][NextWorkbook]_vars

\* what a cell puts on its line
CellShown(x) == IF x = NoneValue THEN << >> ELSE str_value(x)

\* the characters of the first n cells of a row, a tab after each
RECURSIVE CellChars(_, _)
CellChars(row, n) ==
    IF n = 0 THEN 0 ELSE CellChars(row, n - 1) + Len(CellShown(row[n])) + 1

\* the characters of the first n rows of a sheet, a newline after each
RECURSIVE RowChars(_, _)
RowChars(sheet, n) ==
    IF n = 0 THEN 0
    ELSE RowChars(sheet, n - 1)
         + (IF sheet[n] = << >> THEN 0 ELSE CellChars(sheet[n], Len(sheet[n])) - 1) + 1

\* the characters of the first n sheets
RECURSIVE SheetChars(_, _)
SheetChars(sheets, n) ==
    IF n = 0 THEN 0
    ELSE SheetChars(sheets, n - 1) + RowChars(sheets[n], Len(sheets[n]))

\* C14: the text read from a workbook is laid out sheet by sheet in workbook
\* order and row by row in sheet order: every cell value stands, character
\* for character, after the cells before it in its row with one tab between
\* neighbouring cells, a null cell taking no room, one newline stands between
\* consecutive rows (of the same sheet or of consecutive sheets), and nothing
\* else is in the text.
C14_SpreadsheetText ==
    (status = "extracted" /\ caps["openpyxl"] /\ arg.wb.failAt = 0) =>
        LET sheets == arg.wb.sheets
            text   == res.text
            total  == SheetChars(sheets, Len(sheets))
        IN  /\ res.calls = << "_read_excel" >>
            /\ res.log = << >>
            /\ Len(text) = IF total = 0 THEN 0 ELSE total - 1
            /\ \A s \in 1..Len(sheets) : \A r \in 1..Len(sheets[s]) :
                  LET row   == sheets[s][r]
                      start == SheetChars(sheets, s - 1) + RowChars(sheets[s], r - 1)
                      stop  == SheetChars(sheets, s - 1) + RowChars(sheets[s], r)
                  IN  /\ \A i \in 1..Len(row) :
                            /\ \A k \in 1..Len(CellShown(row[i])) :
                                  text[start + CellChars(row, i - 1) + k]
                                      = CellShown(row[i])[k]
                            /\ i < Len(row) => text[start + CellChars(row, i)] = "TAB"
                      /\ stop <= Len(text) => text[stop] = "NL"

\* two sheets, each with the row [a, null, e]
C14_Witness ==
    /\ status = "extracted"
    /\ arg.wb.sheets
         = << << << TextValue(<<"a">>), NoneValue, TextValue(<<"e">>) >> >>,
              << << TextValue(<<"a">>), NoneValue, TextValue(<<"e">>) >> >> >>
    /\ res.text = <<"a", "TAB", "TAB", "e", "NL", "a", "TAB", "TAB", "e">>

-----------------------------------------------------------------------------
(* Properties of the output tree *)

\* C15: an iteration that skips its file because the text to write is empty
\* leaves the output tree as it was: it creates no file and no directory.
C15_SkippedFileCreatesNothing ==
    [][ (IterationStep /\ cur'.outcome = "empty")
            => (outDirs' = outDirs /\ outFiles' = outFiles) ]_vars

\* a text without leading or trailing whitespace whose non-printable
\* characters are newline, carriage return and tab only
CleanText(t) ==
    /\ \A i \in 1..Len(t) : isprintable(t[i]) \/ t[i] \in {"NL", "CR", "TAB"}
    /\ t # << >> => (t[1] \notin WhitespaceChars /\ t[Len(t)] \notin WhitespaceChars)

\* C16 as stated: in every script, the file an iteration has just written
\* holds the sanitized form of the extracted text, so it has no leading or
\* trailing whitespace and no non-printable character other than newline,
\* carriage return and tab.
C16_EveryVariantWritesSanitizedText ==
    cur.outcome = "written" =>
        /\ outFiles[cur.out_path] = sanitize_text(cur.raw_text)
        /\ CleanText(outFiles[cur.out_path])

\* C16, amended: in raw_text_2_utf8.py and files_2_zip.py the file an iteration
\* has just written holds the sanitized form of the extracted text, without
\* leading or trailing whitespace and without a non-printable character other
\* than newline, carriage return and tab; in files_2_text.py it holds the
\* extracted text as it was read.
C16_SanitizingVariantsWriteSanitizedText ==
    cur.outcome = "written" =>
        IF variant = "files_2_text"
        THEN outFiles[cur.out_path] = cur.raw_text
        ELSE /\ outFiles[cur.out_path] = sanitize_text(cur.raw_text)
             /\ CleanText(outFiles[cur.out_path])

C16_Witness ==
    /\ cur.outcome = "written"
    /\ variant = "raw_text_2_utf8"
    /\ cur.raw_text = <<"NUL", "a", " ">>
    /\ outFiles[cur.out_path] = <<"a">>

\* C17: an iteration that skips its file, for whatever reason, leaves every
\* file already in the output tree as it was, the one at the skipped file's
\* mapped output path included; no iteration removes a file; and a file that
\* was there before is changed only by the iteration mapped to its path, and
\* only when that iteration has a non-empty text to write.
C17_SkipLeavesPriorOutput ==
    [][ IterationStep =>
          /\ cur'.outcome \notin {"written", "write_failed"} => outFiles' = outFiles
          /\ \A p \in DOMAIN outFiles :
                /\ p \in DOMAIN outFiles'
                /\ outFiles'[p] # outFiles[p] =>
                      /\ p = cur'.out_path
                      /\ cur'.text # << >>
                      /\ cur'.outcome \in {"written", "write_failed"} ]_vars

\* the run is over, in/a.md was skipped for its empty text, and out/a.txt
\* still holds what an earlier run left there
C17_Witness ==
    /\ status = "done"
    /\ cur.outcome = "empty"
    /\ cur.file.name = Name_a_md
    /\ cur.out_path = join(output_dir, << <<"a",".","t","x","t">> >>)
    /\ cur.out_path \in DOMAIN outFiles
    /\ outFiles[cur.out_path] = <<"e", "e">>
    /\ wrote = {}

=============================================================================
